---- MODULE Spec2Model ----
(***************************************************************************)
(* FetchStats (src/index.ts): the _FetchStats singleton.  A tracked fetch  *)
(* races a timer against the network call; each path records a stat with   *)
(* addStat, the network chain's finally-callback invokes the registered    *)
(* handler and resets the active stats when the handler answers truthy.    *)
(*                                                                         *)
(* One action per callback of the program: the executor of fetch, the      *)
(* timer callback, the then-callback (split at its await), the             *)
(* catch-callback, the finally-callback (split at its await), configure    *)
(* and addHandler.                                                         *)
(***************************************************************************)
EXTENDS Integers, Sequences, FiniteSets, TLC

\* ------------------------------------------------------------------ bounds
MaxRequests == 2
MaxCalls == 1

\* --------------------------------------------------------------- constants
DefaultTimeout == 2000
DefaultStorageLimit == 20
SettingBound == 100

\* ------------------------------------------------------------ value domains
\* A nullable field: <<>> is null, <<v>> is the value v.
Null == <<>>
Some(v) == <<v>>

Requests == 1..MaxRequests

\* The category names addStat accepts (the array literal of its includes()).
Categories == {"errors", "timeouts", "ok", "notOk"}

\* The type strings the three callbacks of fetch pass to addStat.
TimerType_Singular == "timeout"
TimerType == "timeouts"
OkType == "ok"
NotOkType == "notOk"
CatchType == "error"

TimeoutError == "Request timed out."
NetworkErrors == {"TypeError: Failed to fetch"}
BodyErrors == {"TypeError: text failed"}

\* The arguments of fetch, url and options: options without body, with a
\* falsy body (the empty string), with a truthy body.
FetchInputs ==
    { [url |-> "/a", options |-> [method |-> "GET"]],
      [url |-> "/b", options |-> [method |-> "POST", body |-> ""]],
      [url |-> "/c", options |-> [method |-> "POST", body |-> "payload"]] }

\* What the HTTP client answers: ok, status and the body text.
Responses ==
    { [ok |-> TRUE, status |-> 200, text |-> "fine"],
      [ok |-> FALSE, status |-> 404, text |-> "not found"] }

\* Arguments of configure: numbers (NaN apart), and values that are no number.
Num(n) == [kind |-> "number", n |-> n]
NaN == [kind |-> "NaN", n |-> 0]
Undefined == [kind |-> "undefined", n |-> 0]
TimeoutInputs == {Undefined, Num(50), Num(101)}
StorageLimitInputs == {Undefined, NaN, Num(-1), Num(0), Num(1), Num(101)}

\* Handlers a caller may register, named by what they do when invoked, and a
\* value that is no function.
DefaultHandler == "returnsFalse"
Handlers == {DefaultHandler, "returnsTrue", "throws"}
HandlerInputs == Handlers \cup {"notAFunction"}

VARIABLES
    settings,     \* this.settings
    handler,      \* this.handler
    globalStats,  \* this.globalStats
    activeStats,  \* this.activeStats
    reqs,         \* the closure of each call of fetch
    calls,        \* how many calls of configure and addHandler were made
    since         \* per category, the records stored since the last reset,
                  \* and whether storageLimit has stayed the same since the
                  \* first of them

vars == <<settings, handler, globalStats, activeStats, reqs, calls, since>>

\* ------------------------------------------------------- lodash/fp helpers
\* isNumber(v): typeof v == 'number' (NaN is a number).
isNumber(v) == v.kind \in {"number", "NaN"}

\* gte(a, v): a >= v, false when v is NaN.
gte(a, v) == v.kind = "number" /\ a >= v.n

\* take keeping one element more.
take_OneMore(n, array) ==
    LET k == IF n < 0 THEN 0 ELSE IF n + 1 > Len(array) THEN Len(array) ELSE n + 1
    IN  SubSeq(array, 1, k)

\* take(n, array): the first n elements; none when n <= 0.
take(n, array) ==
    LET k == IF n < 0 THEN 0 ELSE IF n > Len(array) THEN Len(array) ELSE n
    IN  SubSeq(array, 1, k)

\* omit(key, object): a copy of object without key.
omit(key, object) == [k \in (DOMAIN object) \ {key} |-> object[k]]

\* if(stat.options.body): the body is there and truthy (not the empty string).
HasTruthyBody(options) == "body" \in DOMAIN options /\ options["body"] # ""

\* ------------------------------------------------------------- the tracker
EmptyActiveStats == [timeouts |-> <<>>, errors |-> <<>>, ok |-> <<>>, notOk |-> <<>>]

\* resetStats emptying the response categories only.
resetStats_ResponsesOnly(active) == [active EXCEPT !.ok = <<>>, !.notOk = <<>>]

\* resetStats(): this.activeStats is a fresh object of four empty arrays.
resetStats(active) == EmptyActiveStats

\* The stat object a callback of fetch builds.
Stat(status, bodyText, error, url, options) ==
    [status |-> status, bodyText |-> bodyText, error |-> error,
     url |-> url, options |-> options]

StripBody(stat) ==
    IF HasTruthyBody(stat.options)
    THEN [stat EXCEPT !.options = omit("body", stat.options)]
    ELSE stat

\* addStat counting only after the type was looked up.
addStat_CountAfterLookup(global, active, storageLimit, type, stat) ==
    LET s == StripBody(stat)
        g1 == [global EXCEPT !.lastStat = Some(s)]
    IN  IF type \in Categories
        THEN [global |-> [g1 EXCEPT !.count = @ + 1, ![type] = @ + 1],
              active |-> [active EXCEPT ![type] = take(storageLimit, <<s>> \o @)],
              threw |-> FALSE]
        ELSE [global |-> g1, active |-> active, threw |-> TRUE]

\* addStat pushing the record at the end of the category.
addStat_Push(global, active, storageLimit, type, stat) ==
    LET s == StripBody(stat)
        g1 == [global EXCEPT !.lastStat = Some(s), !.count = @ + 1]
    IN  IF type \in Categories
        THEN [global |-> [g1 EXCEPT ![type] = @ + 1],
              active |-> [active EXCEPT ![type] = take(storageLimit, @ \o <<s>>)],
              threw |-> FALSE]
        ELSE [global |-> g1, active |-> active, threw |-> TRUE]

\* addStat(type, stat) on (globalStats, activeStats) under storageLimit: the
\* new globalStats and activeStats, and whether the call threw.  lastStat and
\* count are written before the type is looked up, so they stay written when
\* the lookup throws.
addStat(global, active, storageLimit, type, stat) ==
    LET s == StripBody(stat)
        g1 == [global EXCEPT !.lastStat = Some(s), !.count = @ + 1]
    IN  IF type \in Categories
        THEN [global |-> [g1 EXCEPT ![type] = @ + 1],
              active |-> [active EXCEPT ![type] = take(storageLimit, <<s>> \o @)],
              threw |-> FALSE]
        ELSE [global |-> g1, active |-> active, threw |-> TRUE]

\* configure taking every number, NaN included.
ConfigureValue_AnyNumber(v, old) == IF isNumber(v) THEN v.n ELSE old

\* One setting of configure: the argument when it is a number <= 100, the old
\* value otherwise.
ConfigureValue(v, old) == IF isNumber(v) /\ gte(SettingBound, v) THEN v.n ELSE old

\* What invoking a handler gives once awaited.
HandlerResult(h) ==
    CASE h = "returnsFalse" -> "false"
      [] h = "returnsTrue" -> "true"
      [] h = "throws" -> "throw"

\* ----------------------------------------------------- the calls of fetch
Pending == [state |-> "pending", value |-> Null, reason |-> Null]

\* resolve(response) and reject(err) of the promise fetch returns: the first
\* call settles it, later calls do nothing.
resolve(promise, response) ==
    IF promise.state = "pending"
    THEN [state |-> "resolved", value |-> Some(response), reason |-> Null]
    ELSE promise

reject(promise, err) ==
    IF promise.state = "pending"
    THEN [state |-> "rejected", value |-> Null, reason |-> Some(err)]
    ELSE promise

\* Nothing stored since the last reset.
NoneSince == [n |-> [t \in Categories |-> 0], sameLimit |-> TRUE]

\* An addStat call of this step under type: one more record stored under it,
\* if it is a category.
Stored(type) ==
    since' = IF type \in Categories THEN [since EXCEPT !.n[type] = @ + 1] ELSE since

Unused ==
    [net |-> "unused", timer |-> "unset", delay |-> 0,
     url |-> "", options |-> [method |-> "GET"], response |-> Null,
     settledFirst |-> FALSE, promise |-> Pending, recorded |-> <<>>,
     handlerCalls |-> 0, invoked |-> Null, failure |-> Null, chainError |-> Null,
     seen |-> [t \in Categories |-> 0], dropped |-> 0]

\* A microtask of some promise chain is queued: a then- or catch-callback has
\* run and its finally-callback has not.  Timers and I/O completions run only
\* once the microtask queue is empty.
MicrotaskPending == \E q \in Requests : reqs[q].net = "settled"

TypeOK ==
    /\ settings.timeout \in Int /\ settings.storageLimit \in Int
    /\ handler \in Handlers
    /\ globalStats.count \in Nat
    /\ \A r \in Requests :
         /\ reqs[r].net \in {"unused", "inflight", "body", "settled", "handler", "done"}
         /\ reqs[r].timer \in {"unset", "armed", "fired", "cleared"}

Init ==
    /\ settings = [timeout |-> DefaultTimeout, storageLimit |-> DefaultStorageLimit]
    /\ handler = DefaultHandler
    /\ globalStats = [count |-> 0, errors |-> 0, ok |-> 0, notOk |-> 0,
                      timeouts |-> 0, lastStat |-> Null]
    /\ activeStats = EmptyActiveStats
    /\ reqs = [r \in Requests |-> Unused]
    /\ calls = 0
    /\ since = NoneSince


\* fetch(url, options): the executor arms the timer with the timeout in force
\* and starts the network call.
Fetch(r, url, options) ==
    /\ reqs[r].net = "unused"
    /\ \A q \in Requests : q < r => reqs[q].net # "unused"
    /\ reqs' = [reqs EXCEPT ![r] =
                  [@ EXCEPT !.net = "inflight", !.timer = "armed",
                            !.delay = settings.timeout,
                            !.url = url, !.options = options]]
    /\ UNCHANGED <<settings, handler, globalStats, activeStats, calls, since>>

\* The timer callback: records a timeout and rejects with the timeout error.
TimerFire(r) ==
    /\ reqs[r].timer = "armed"
    /\ ~MicrotaskPending
    /\ LET c == reqs[r]
           res == addStat(globalStats, activeStats, settings.storageLimit, TimerType,
                          Stat(Null, Null, Some(TimeoutError), c.url, c.options))
       IN  /\ globalStats' = res.global
           /\ activeStats' = res.active
           /\ reqs' = [reqs EXCEPT ![r] =
                         [@ EXCEPT !.timer = "fired",
                                   !.recorded = Append(@, TimerType),
                                   !.promise = IF res.threw THEN @
                                               ELSE reject(@, TimeoutError)]]
    /\ Stored(TimerType)
    /\ UNCHANGED <<settings, handler, calls>>

\* The catch-callback on err: records under CatchType and rejects with err;
\* when addStat throws, reject is not reached and the chain carries the new
\* error on to the finally-callback.
Catch(r, err) ==
    LET c == reqs[r]
        res == addStat(globalStats, activeStats, settings.storageLimit, CatchType,
                       Stat(Null, Null, Some(err), c.url, c.options))
    IN  /\ globalStats' = res.global
        /\ activeStats' = res.active
        /\ reqs' = [reqs EXCEPT ![r] =
                      [@ EXCEPT !.net = "settled",
                                !.settledFirst =
                                    IF c.net = "inflight" THEN c.timer # "fired" ELSE @,
                                !.recorded = Append(@, CatchType),
                                !.failure = Some(err),
                                !.promise = IF res.threw THEN @ ELSE reject(@, err),
                                !.chainError = IF res.threw
                                               THEN Some(CatchType \o " is incorrect")
                                               ELSE Null]]
        /\ Stored(CatchType)

\* The network call fails: the then-callback is skipped, the catch-callback
\* runs on the error.
NetReject(r, err) ==
    /\ reqs[r].net = "inflight"
    /\ ~MicrotaskPending
    /\ Catch(r, err)
    /\ UNCHANGED <<settings, handler, calls>>

\* The network call answers: the then-callback records an ok response and
\* resolves; on any other response it clones it and awaits the text.
NetResolve(r, response) ==
    /\ reqs[r].net = "inflight"
    /\ ~MicrotaskPending
    /\ LET c == reqs[r]
           first == c.timer # "fired"
       IN  IF response.ok
           THEN LET res == addStat(globalStats, activeStats, settings.storageLimit, OkType,
                                   Stat(Some(response.status), Null, Null, c.url, c.options))
                IN  /\ globalStats' = res.global
                    /\ activeStats' = res.active
                    /\ reqs' = [reqs EXCEPT ![r] =
                                  [@ EXCEPT !.net = "settled",
                                            !.response = Some(response),
                                            !.settledFirst = first,
                                            !.recorded = Append(@, OkType),
                                            !.promise = resolve(@, response)]]
                    /\ Stored(OkType)
           ELSE /\ reqs' = [reqs EXCEPT ![r] =
                              [@ EXCEPT !.net = "body",
                                        !.response = Some(response),
                                        !.settledFirst = first]]
                /\ UNCHANGED <<globalStats, activeStats, since>>
    /\ UNCHANGED <<settings, handler, calls>>

\* The text of the cloned response arrives: the then-callback goes on, records
\* the response as notOk with the text and resolves.
BodyResolve(r) ==
    /\ reqs[r].net = "body"
    /\ ~MicrotaskPending
    /\ LET c == reqs[r]
           response == c.response[1]
           res == addStat(globalStats, activeStats, settings.storageLimit, NotOkType,
                          Stat(Some(response.status), Some(response.text), Null,
                               c.url, c.options))
       IN  /\ globalStats' = res.global
           /\ activeStats' = res.active
           /\ reqs' = [reqs EXCEPT ![r] =
                         [@ EXCEPT !.net = "settled",
                                   !.recorded = Append(@, NotOkType),
                                   !.promise = resolve(@, response)]]
    /\ Stored(NotOkType)
    /\ UNCHANGED <<settings, handler, calls>>

\* Reading the text fails: the then-callback rejects and the catch-callback
\* runs on that error.
BodyReject(r, err) ==
    /\ reqs[r].net = "body"
    /\ ~MicrotaskPending
    /\ Catch(r, err)
    /\ UNCHANGED <<settings, handler, calls>>

\* The finally-callback without its clearTimeout: the timer of a request
\* whose chain is over stays armed.
Finally_NoClear(r) ==
    /\ reqs[r].net = "settled"
    /\ reqs' = [reqs EXCEPT ![r] =
                  [@ EXCEPT !.net = "handler",
                            !.handlerCalls = @ + 1,
                            !.invoked = Some(handler),
                            !.seen = [t \in Categories |-> globalStats[t]]]]
    /\ UNCHANGED <<settings, handler, globalStats, activeStats, calls, since>>

\* The finally-callback up to its await: clears the timer and invokes the
\* handler registered now.
Finally(r) ==
    /\ reqs[r].net = "settled"
    /\ reqs' = [reqs EXCEPT ![r] =
                  [@ EXCEPT !.net = "handler",
                            !.timer = IF @ = "armed" THEN "cleared" ELSE @,
                            !.handlerCalls = @ + 1,
                            !.invoked = Some(handler),
                            !.seen = [t \in Categories |-> globalStats[t]]]]
    /\ UNCHANGED <<settings, handler, globalStats, activeStats, calls, since>>

\* The records in the sequences now that were stored after the handler of r
\* was invoked: they are at the front of their sequences.
Min(a, b) == IF a < b THEN a ELSE b

NewIn(r, t) == Min(globalStats[t] - reqs[r].seen[t], Len(activeStats[t]))

AddedWhilePending(r) ==
    NewIn(r, "errors") + NewIn(r, "timeouts") + NewIn(r, "ok") + NewIn(r, "notOk")

\* The finally-callback without its try/catch: what the handler throws leaves
\* the callback and rejects the chain.
HandlerReturn_NoCatch(r) ==
    /\ reqs[r].net = "handler"
    /\ LET answer == HandlerResult(reqs[r].invoked[1])
       IN  /\ activeStats' = IF answer = "true" THEN resetStats(activeStats)
                             ELSE activeStats
           /\ reqs' = [reqs EXCEPT ![r] =
                         [@ EXCEPT !.net = "done",
                                   !.chainError = IF answer = "throw"
                                                  THEN Some("handler error") ELSE @]]
           /\ since' = IF answer = "true" THEN NoneSince ELSE since
    /\ UNCHANGED <<settings, handler, globalStats, calls>>

\* A finally-callback whose reset spares the records stored since its
\* handler was invoked.
HandlerReturn_SparesNew(r) ==
    /\ reqs[r].net = "handler"
    /\ LET answer == HandlerResult(reqs[r].invoked[1])
       IN  /\ activeStats' = IF answer = "true"
                             THEN [t \in Categories |->
                                     SubSeq(activeStats[t], 1, NewIn(r, t))]
                             ELSE activeStats
           /\ since' = IF answer = "true" THEN NoneSince ELSE since
           /\ reqs' = [reqs EXCEPT ![r] =
                         [@ EXCEPT !.net = "done",
                                   !.seen = [t \in Categories |-> 0],
                                   !.dropped = 0]]
    /\ UNCHANGED <<settings, handler, globalStats, calls>>

\* The finally-callback after its await: resets on a truthy answer, logs and
\* drops what the handler threw.
HandlerReturn(r) ==
    /\ reqs[r].net = "handler"
    /\ LET answer == HandlerResult(reqs[r].invoked[1])
       IN  /\ activeStats' = IF answer = "true" THEN resetStats(activeStats)
                             ELSE activeStats
           /\ since' = IF answer = "true" THEN NoneSince ELSE since
           /\ reqs' = [reqs EXCEPT ![r] =
                         [@ EXCEPT !.net = "done",
                                   !.seen = [t \in Categories |-> 0],
                                   !.dropped = IF answer = "true"
                                               THEN AddedWhilePending(r) ELSE 0]]
    /\ UNCHANGED <<settings, handler, globalStats, calls>>

\* A configure that also re-arms the timers of the requests in flight with
\* the new timeout.
Configure_Rearms(timeout, storageLimit) ==
    /\ calls < MaxCalls
    /\ calls' = calls + 1
    /\ settings' = [timeout |-> ConfigureValue(timeout, settings.timeout),
                    storageLimit |-> ConfigureValue(storageLimit, settings.storageLimit)]
    /\ since' = [since EXCEPT !.sameLimit =
                    @ /\ (\/ settings'.storageLimit = settings.storageLimit
                          \/ \A t \in Categories : since.n[t] = 0)]
    /\ reqs' = [r \in Requests |->
                  IF reqs[r].timer = "armed"
                  THEN [reqs[r] EXCEPT !.delay = settings'.timeout]
                  ELSE reqs[r]]
    /\ UNCHANGED <<handler, globalStats, activeStats>>

\* configure({timeout, storageLimit})
Configure(timeout, storageLimit) ==
    /\ calls < MaxCalls
    /\ calls' = calls + 1
    /\ settings' = [timeout |-> ConfigureValue(timeout, settings.timeout),
                    storageLimit |-> ConfigureValue(storageLimit, settings.storageLimit)]
    /\ since' = [since EXCEPT !.sameLimit =
                    @ /\ (\/ settings'.storageLimit = settings.storageLimit
                          \/ \A t \in Categories : since.n[t] = 0)]
    /\ UNCHANGED <<handler, globalStats, activeStats, reqs>>

\* addHandler(handler)
AddHandler(h) ==
    /\ calls < MaxCalls
    /\ calls' = calls + 1
    /\ handler' = IF h \in Handlers THEN h ELSE handler
    /\ UNCHANGED <<settings, globalStats, activeStats, reqs, since>>

Next ==
    \/ \E r \in Requests, in \in FetchInputs : Fetch(r, in.url, in.options)
    \/ \E r \in Requests : TimerFire(r)
    \/ \E r \in Requests, response \in Responses : NetResolve(r, response)
    \/ \E r \in Requests, err \in NetworkErrors : NetReject(r, err)
    \/ \E r \in Requests : BodyResolve(r)
    \/ \E r \in Requests, err \in BodyErrors : BodyReject(r, err)
    \/ \E r \in Requests : Finally(r)
    \/ \E r \in Requests : HandlerReturn(r)
    \/ \E t \in TimeoutInputs, s \in StorageLimitInputs : Configure(t, s)
    \/ \E h \in HandlerInputs : AddHandler(h)

Spec == Init /\ [][Next]_vars

\* What the event loop guarantees: an armed timer fires unless it is cleared,
\* a queued finally-callback runs, an awaited handler answers.  Nothing makes
\* the network call settle or the text arrive.
FairSpec ==
    /\ Spec
    /\ \A r \in Requests :
         /\ WF_vars(TimerFire(r))
         /\ WF_vars(Finally(r))
         /\ WF_vars(HandlerReturn(r))

\* ------------------------------------------------------------ observations
Started == {r \in Requests : reqs[r].net # "unused"}

\* The network chain of r has run its then- or catch-callback.
ChainRan(r) == reqs[r].net \in {"settled", "handler", "done"}

\* Timer and network chain of r are both over.
Finished(r) == reqs[r].net = "done" /\ reqs[r].timer \in {"fired", "cleared"}

AllFinished == Started # {} /\ \A r \in Started : Finished(r)

TimersFired == {r \in Requests : reqs[r].timer = "fired"}

CategorySum ==
    globalStats.errors + globalStats.ok + globalStats.notOk + globalStats.timeouts

\* ------------------------------------------------------------------ claims

\* C1: in every reachable state count is the sum of the four category
\* counters.  Stated as in the claim; the catch-callback breaks it.
C1_CountIsSum == globalStats.count = CategorySum

\* C2 as stated: once the timers and network calls of the N tracked requests
\* are over, count is N.
C2_CountIsRequests == AllFinished => globalStats.count = Cardinality(Started)

\* C2 amended: once the timers and network calls of the N tracked requests
\* are over, count is N plus the number of requests whose timer fired; the
\* network chain records every request once and a timer that fires records
\* it once more.
C2_CountIsRequestsPlusFiredTimers ==
    AllFinished => globalStats.count = Cardinality(Started) + Cardinality(TimersFired)

\* Two requests are over, one of them recorded by its timer and by its chain.
C2_Witness ==
    /\ AllFinished
    /\ Cardinality(Started) = 2
    /\ Cardinality(TimersFired) = 1
    /\ globalStats.count = 3

\* C3: in every reachable state each of the four sequences is no longer than
\* the current storageLimit.  Stated as in the claim; configure lowers the
\* limit without truncating and accepts negative limits.
C3_LengthWithinLimit ==
    \A t \in Categories : Len(activeStats[t]) <= settings.storageLimit

\* The timer of r fired while its network call had not settled.
TimedOutFirst(r) == reqs[r].timer = "fired" /\ ~reqs[r].settledFirst

\* This step is the timer callback of r, run while the network call of r has
\* not settled.
TimerFiresFirst(r) ==
    /\ reqs[r].timer = "armed" /\ reqs[r].net = "inflight"
    /\ reqs'[r].timer = "fired"

IsTimeoutRecord(stat, r) ==
    /\ stat.status = Null /\ stat.bodyText = Null
    /\ stat.error = Some(TimeoutError)
    /\ stat.url = reqs[r].url

RejectedWith(r, err) ==
    reqs[r].promise.state = "rejected" /\ reqs[r].promise.reason = Some(err)

\* What C4 says of the counters and of the tracked call: the timer callback
\* adds one to timeouts and to count, the call fails with the timeout error.
C4_Counted(r) ==
    /\ globalStats'.count = globalStats.count + 1
    /\ globalStats'.timeouts = globalStats.timeouts + 1
    /\ reqs'[r].promise.state = "rejected"
    /\ reqs'[r].promise.reason = Some(TimeoutError)

\* Afterwards, whatever the network call does: the call stays failed with the
\* timeout error and r is recorded as a timeout exactly once, first.
C4_Stays(r) ==
    TimedOutFirst(r) =>
        /\ RejectedWith(r, TimeoutError)
        /\ reqs[r].recorded[1] = "timeouts"
        /\ Cardinality({i \in DOMAIN reqs[r].recorded : reqs[r].recorded[i] = "timeouts"}) = 1

\* C4 as stated: when the timer of a request fires before its network call
\* settles, timeouts and count go up by one, the timeout record is stored in
\* ActiveStats.timeouts, and the call fails with the timeout error, whatever
\* the network call does later.
C4_TimeoutRecorded ==
    /\ [][\A r \in Requests : TimerFiresFirst(r) =>
            /\ C4_Counted(r)
            /\ Len(activeStats'.timeouts) > 0
            /\ IsTimeoutRecord(activeStats'.timeouts[1], r)]_vars
    /\ [](\A r \in Requests : C4_Stays(r))

\* C4 amended: as stated, but the timeout record is stored (at index 0 of
\* ActiveStats.timeouts) when storageLimit >= 1, and with storageLimit < 1
\* the sequence is left empty.
C4_TimeoutRecordedWithinLimit ==
    /\ [][\A r \in Requests : TimerFiresFirst(r) =>
            /\ C4_Counted(r)
            /\ IF settings.storageLimit >= 1
               THEN /\ Len(activeStats'.timeouts) > 0
                    /\ IsTimeoutRecord(activeStats'.timeouts[1], r)
               ELSE activeStats'.timeouts = <<>>]_vars
    /\ [](\A r \in Requests : C4_Stays(r))

\* A request timed out first, its network call answered afterwards and its
\* chain is over; the timeout record is in the history.
C4_Witness ==
    \E r \in Requests :
        /\ TimedOutFirst(r) /\ reqs[r].net = "done"
        /\ reqs[r].response # Null
        /\ RejectedWith(r, TimeoutError)
        /\ Len(activeStats.timeouts) > 0
        /\ IsTimeoutRecord(activeStats.timeouts[1], r)

\* This step is the catch-callback of r, run on a failure of the network call
\* itself while the timer of r has not fired.
NetworkFailsFirst(r) ==
    /\ reqs[r].net = "inflight" /\ reqs[r].timer = "armed"
    /\ reqs'[r].net = "settled" /\ reqs'[r].failure # Null

\* C5: when the network call of a request fails before its timer fires,
\* errors and count go up by one, a record carrying the error is prepended to
\* ActiveStats.errors and the tracked call fails with that error.  Stated as
\* in the claim; the catch-callback records under a type addStat rejects.
C5_TransportErrorRecorded ==
    [][\A r \in Requests : NetworkFailsFirst(r) =>
          /\ globalStats'.count = globalStats.count + 1
          /\ globalStats'.errors = globalStats.errors + 1
          /\ Len(activeStats'.errors) > 0
          /\ activeStats'.errors[1].error = reqs'[r].failure
          /\ reqs'[r].promise.state = "rejected"
          /\ reqs'[r].promise.reason = reqs'[r].failure]_vars

\* The network call of r answered while its timer had not fired.
AnsweredFirst(r) == reqs[r].response # Null /\ reqs[r].settledFirst

ResolvedWithResponse(r) ==
    reqs[r].promise.state = "resolved" /\ reqs[r].promise.value = reqs[r].response

\* C6: when the network call answers before the timer has fired, the tracked
\* call is never failed, also while the text is read, and once the chain has
\* run it is resolved with the response and exactly one category is recorded
\* for the request, ok or notOk by response.ok.  Stated as in the claim; the
\* timer stays armed while the text is read.
C6_ResponseResolves ==
    \A r \in Requests : AnsweredFirst(r) =>
        /\ reqs[r].promise.state # "rejected"
        /\ ChainRan(r) =>
             /\ ResolvedWithResponse(r)
             /\ reqs[r].recorded = <<IF reqs[r].response[1].ok THEN "ok" ELSE "notOk">>

\* r has completed with one of the four outcomes: a callback classified it.
Completed(r) == reqs[r].recorded # <<>>

\* C7: for every tracked request that completes with any of the four
\* outcomes, the handler is invoked exactly once for it, after the
\* completion.  Stated as in the claim; the timer callback invokes no handler.
C7_HandlerInvokedOnce ==
    \A r \in Requests :
        /\ Completed(r) ~> (reqs[r].handlerCalls = 1)
        /\ [](reqs[r].handlerCalls <= 1)
        /\ [](reqs[r].handlerCalls = 1 => Completed(r))

\* This step is the end of the finally-callback of r, whose handler was h.
HandlerAnswers(r, h) ==
    /\ reqs[r].net = "handler" /\ reqs[r].invoked = Some(h)
    /\ reqs'[r].net = "done"

\* C8: when the handler answers truthy, the four sequences become empty and
\* GlobalStats, the settings and the registered handler stay as they are;
\* when it answers falsy, ActiveStats and GlobalStats stay as they are.
C8_ResetClearsHistoryOnly ==
    [][\A r \in Requests :
          /\ HandlerAnswers(r, "returnsTrue") =>
                /\ \A t \in Categories : activeStats'[t] = <<>>
                /\ globalStats' = globalStats
                /\ settings' = settings
                /\ handler' = handler
          /\ HandlerAnswers(r, "returnsFalse") =>
                /\ activeStats' = activeStats
                /\ globalStats' = globalStats]_vars

\* A reset has happened after a timeout and a response were recorded: the
\* history is empty and the counters are not.
C8_Witness ==
    \E r \in Requests :
        /\ reqs[r].net = "done" /\ reqs[r].invoked = Some("returnsTrue")
        /\ activeStats = EmptyActiveStats
        /\ globalStats.timeouts >= 1 /\ globalStats.ok >= 1
        /\ globalStats.lastStat # Null

Accepted(v) == v.kind = "number" /\ v.n <= 100

\* C10: configure leaves a setting as it was when the value given for it is
\* no number or is out of bound, and sets it when the value is accepted,
\* each setting on its own value alone.
C10_ConfigureValidatesEach ==
    [][\A t \in TimeoutInputs, s \in StorageLimitInputs : Configure(t, s) =>
          /\ settings'.timeout = IF Accepted(t) THEN t.n ELSE settings.timeout
          /\ settings'.storageLimit = IF Accepted(s) THEN s.n ELSE settings.storageLimit]_vars

\* configure was called with no valid timeout and a valid storageLimit: the
\* timeout is the old one, the storageLimit the new one.
C10_Witness ==
    /\ calls >= 1
    /\ settings.timeout = DefaultTimeout
    /\ settings.storageLimit = 1

HeldRecords ==
    UNION {{activeStats[t][i] : i \in DOMAIN activeStats[t]} : t \in Categories}
      \cup {globalStats.lastStat[i] : i \in DOMAIN globalStats.lastStat}

\* C11: in every reachable state no record in an ActiveStats sequence or in
\* lastStat has a body field in its options, whatever body the caller gave.
\* Stated as in the claim; addStat omits the body only when it is truthy.
C11_NoBodyStored == \A stat \in HeldRecords : "body" \notin DOMAIN stat.options

\* This step stored a record under category t.
RecordedInto(t) == globalStats'[t] = globalStats[t] + 1

\* The request whose callback recorded in this step.
Recorder(r) == Len(reqs'[r].recorded) = Len(reqs[r].recorded) + 1

IsPrefix(a, b) == Len(a) <= Len(b) /\ a = SubSeq(b, 1, Len(a))

\* The record just stored is the one of the request whose callback ran, and
\* it is lastStat.
IsNewRecord(stat) ==
    /\ globalStats'.lastStat = Some(stat)
    /\ \E r \in Requests : Recorder(r) /\ stat.url = reqs[r].url

\* C12 as stated: after any number of tracked requests, index 0 of a
\* category is the record of the request of that category that completed
\* last, and the rest are the older records, newest first.
C12_NewestFirst ==
    /\ [][\A t \in Categories : RecordedInto(t) =>
            /\ Len(activeStats'[t]) > 0
            /\ IsNewRecord(activeStats'[t][1])
            /\ IsPrefix(Tail(activeStats'[t]), activeStats[t])]_vars
    /\ [](\A t \in Categories : globalStats[t] > 0 => Len(activeStats[t]) > 0)

\* C12 amended: a category's sequence is either empty (after a reset, or
\* after a recording under a storageLimit below 1) or has at index 0 the
\* record stored last under that category, followed by the older records,
\* newest first, the oldest being the ones dropped; between two recordings
\* under a category its sequence stays as it is or is emptied by a reset.
C12_NewestFirstOrEmpty ==
    [][\A t \in Categories :
          IF RecordedInto(t)
          THEN \/ activeStats'[t] = <<>> /\ settings.storageLimit < 1
               \/ /\ Len(activeStats'[t]) > 0
                  /\ IsNewRecord(activeStats'[t][1])
                  /\ IsPrefix(Tail(activeStats'[t]), activeStats[t])
          ELSE activeStats'[t] = activeStats[t] \/ activeStats'[t] = <<>>]_vars

\* Two requests were answered ok: the later one is at index 0, the earlier
\* one behind it.
C12_Witness ==
    /\ Len(activeStats.ok) = 2
    /\ Some(activeStats.ok[1]) = globalStats.lastStat
    /\ activeStats.ok[1].url # activeStats.ok[2].url
    /\ \A r \in Requests : reqs[r].net = "done" /\ reqs[r].recorded = <<"ok">>

\* The requests whose outcome fell in category t: timed out, answered ok,
\* answered not ok, failed.
InCategory(t) ==
    {r \in Requests : \E i \in DOMAIN reqs[r].recorded :
        reqs[r].recorded[i] = (IF t = "errors" THEN "error" ELSE t)}

NetworkCategory(r) ==
    IF reqs[r].failure # Null THEN "errors"
    ELSE IF reqs[r].response[1].ok THEN "ok" ELSE "notOk"

\* C14: when the timer of a request has fired and its network call settles
\* afterwards, the network path still runs in full: it records its own
\* outcome under its category and runs the completion hook, and the tracked
\* call stays failed with the timeout error.  Stated as in the claim; a late
\* failure of the network call is recorded under no category (C5).
C14_LateNetworkPathRuns ==
    \A r \in Requests : (TimedOutFirst(r) /\ reqs[r].net = "done") =>
        /\ reqs[r].recorded = <<"timeouts", NetworkCategory(r)>>
        /\ globalStats[NetworkCategory(r)] >= 1
        /\ reqs[r].handlerCalls = 1
        /\ RejectedWith(r, TimeoutError)

\* C15: in all four outcome paths the handler is invoked before the returned
\* promise is resolved or rejected.  Stated as in the claim; the callbacks
\* call resolve and reject themselves and the handler is invoked later, in
\* the finally-callback.
C15_HookBeforeDelivery ==
    \A r \in Requests : reqs[r].promise.state # "pending" => reqs[r].handlerCalls >= 1

\* C16: lastStat is null as long as nothing was recorded, and every step
\* that writes it also prepends that record to a category.  Stated as in the
\* claim; the catch-callback writes lastStat and stores under no category.
C16_LastStatIsStored ==
    /\ [][globalStats'.count # globalStats.count =>
            \E t \in Categories :
                /\ RecordedInto(t)
                /\ activeStats'[t] =
                      take(settings.storageLimit,
                           <<globalStats'.lastStat[1]>> \o activeStats[t])]_vars
    /\ [](globalStats.lastStat = Null <=> globalStats.count = 0)

\* C17: the timer of a request is armed with the settings.timeout in force
\* when the request starts and that delay never changes afterwards; a step
\* that changes the settings leaves the delay and the timer of every request
\* as they are; a step that fires or clears the timer of one request leaves
\* the timers of the others as they are.
C17_DeadlineCapturedAtStart ==
    [][/\ \A r \in Requests :
            /\ (reqs[r].net = "unused" /\ reqs'[r].net # "unused") =>
                  /\ reqs'[r].timer = "armed"
                  /\ reqs'[r].delay = settings.timeout
            /\ reqs[r].net # "unused" => reqs'[r].delay = reqs[r].delay
            /\ settings' # settings =>
                  /\ reqs'[r].timer = reqs[r].timer
                  /\ reqs'[r].delay = reqs[r].delay
       /\ \A r, q \in Requests :
            (r # q /\ reqs'[r].timer # reqs[r].timer) =>
                reqs'[q].timer = reqs[q].timer]_vars

\* Two requests are in flight with armed timers of different delays: the
\* first started under the default timeout, the second after configure
\* changed it.
C17_Witness ==
    \E r, q \in Requests :
        /\ reqs[r].timer = "armed" /\ reqs[q].timer = "armed"
        /\ reqs[r].delay = DefaultTimeout
        /\ reqs[q].delay = settings.timeout
        /\ settings.timeout # DefaultTimeout

\* C18: once the finally-callback of a request has started, its timer is
\* not armed, whatever the then- or catch-callback did and whatever the
\* handler does; from then on nothing is recorded for the request and its
\* timer stays as it is.  So no timer is armed once every started request has
\* completed.
C18_TimerClearedOnEveryPath ==
    /\ [](\A r \in Requests :
            reqs[r].net \in {"handler", "done"} => reqs[r].timer \in {"fired", "cleared"})
    /\ [][\A r \in Requests : reqs[r].net \in {"handler", "done"} =>
            /\ reqs'[r].timer = reqs[r].timer
            /\ reqs'[r].recorded = reqs[r].recorded]_vars

\* Two requests have completed with cleared timers and no timeouts record:
\* one whose catch-callback was left by the category error and whose handler
\* threw, one that was answered.
C18_Witness ==
    \E r, q \in Requests :
        /\ reqs[r].net = "done" /\ reqs[r].timer = "cleared"
        /\ reqs[r].chainError # Null /\ reqs[r].invoked = Some("throws")
        /\ reqs[q].net = "done" /\ reqs[q].timer = "cleared"
        /\ reqs[q].response # Null
        /\ globalStats.timeouts = 0

\* C19: every tracked call that was started is eventually resolved or
\* rejected, given that its timer fires unless cleared and its queued
\* callbacks run.  Stated as in the claim; after a failure of the network
\* call the catch-callback is left before reject and the timer is cleared.
C19_EventuallySettles ==
    \A r \in Requests :
        (reqs[r].net # "unused") ~> (reqs[r].promise.state # "pending")

\* C20 as stated: a reset at the end of the finally-callback of r keeps the
\* records stored since the handler of r was invoked.
C20_ResetKeepsNewRecords ==
    [][\A r \in Requests : HandlerAnswers(r, "returnsTrue") =>
          \A t \in Categories :
              activeStats'[t] = SubSeq(activeStats[t], 1, NewIn(r, t))]_vars

\* C20 amended: a reset at the end of the finally-callback of r empties
\* every sequence, the records stored since the handler of r was invoked
\* included.
C20_ResetDiscardsNewRecords ==
    [][\A r \in Requests : HandlerAnswers(r, "returnsTrue") =>
          \A t \in Categories :
              NewIn(r, t) >= 1 => activeStats'[t] = <<>>]_vars

\* A reset has discarded a record that another request stored while the
\* handler was pending.
C20_Witness ==
    \E r \in Requests :
        /\ reqs[r].net = "done" /\ reqs[r].invoked = Some("returnsTrue")
        /\ reqs[r].dropped >= 1
        /\ activeStats = EmptyActiveStats

====
